---- MODULE Spec2Model ----
(***************************************************************************)
(* Model of the MicroShift "run" command: RunMicroshift races the          *)
(* aggregate-readiness channel of the service manager, the operator signal *)
(* channel and the run context, cancels the run context and then waits a   *)
(* bounded grace period for the manager to stop.  The certificate watcher  *)
(* goroutine couples the certificate-rotation deadline context to the run  *)
(* context.  pkg/servicemanager is not part of the visible sources; the    *)
(* manager and the services are modelled from the specification (§4.1,     *)
(* §4.2).                                                                  *)
(***************************************************************************)
EXTENDS Naturals, Integers, Sequences, FiniteSets, TLC

----------------------------------------------------------------------------
(* Bounds *)

\* number of registered services in a session
NumServices == 2

\* how many times one service may invoke its readiness signal
MaxReadyCalls == 2

\* number of distinct service names offered to register
NumNames == 4

----------------------------------------------------------------------------
(* Program constants *)

\* seconds of grace granted to the manager after runCancel()
gracefulShutdownTimeout == 60

\* marker for an environment variable that is not set
Unset == "<unset>"

\* values NOTIFY_SOCKET may have when the process starts
NotifySocketValues == {Unset, "", "/run/systemd/notify"}

\* signals routed to sigTerm by signal.Notify
Signals == {"SIGINT", "SIGTERM"}

\* fatal precondition faults ahead of the environment stash
PreflightFaults == {"config", "privilege", "noproxy", "certs", "kubeconfigs", "register"}

Services == 1..NumServices

\* service names offered to register (names are compared for equality only)
RegNames == 1..NumNames

\* the names RunMicroshift registers, in the order of its AddService calls
ServiceNames == [i \in 1..NumServices |-> i]

----------------------------------------------------------------------------
VARIABLES
  pc,            \* position of the RunMicroshift goroutine
  env,           \* process environment: value of NOTIFY_SOCKET
  notifySocket,  \* local notifySocket
  fatalCause,    \* which klog.Fatal ended the process ("" if none)
  certCtx,       \* "none" | "active" | "deadline" | "canceled"
  runCtxDone,    \* runCtx has been cancelled
  wpc,           \* certificate watcher goroutine: "idle" | "select" | "done"
  sigRegistered, \* signal.Notify has been called
  sigTerm,       \* buffered channel of capacity 1
  sigEver,       \* an operator signal has been delivered to the process
  branch,        \* case taken by the trigger select ("" | "ready" | "signal" | "runCtxDone")
  notifyCalls,   \* number of daemon.SdNotify calls
  notifyResult,  \* "" | "sent" | "unsupported" | "error"
  log,           \* shutdown reasons written to the log
  graceElapsed,  \* seconds elapsed on the time.After timer (0 or the full period)
  exitVia,       \* case taken by the grace select ("" | "stopped" | "timeout")
  ret,           \* value returned by RunMicroshift ("none" | "nil")
  mgrPc,         \* manager: "idle"|"startup"|"steady"|"failStop"|"waitAll"|"returned"
  launched,      \* number of services whose run has been launched
  svc,           \* per service: "notStarted"|"running"|"stopped"|"failed"
  readyCalls,    \* per service: number of readiness signals
  mgrCancelled,  \* manager cancelled the scope shared by the services
  stopIdx,       \* reverse-order stop cursor on the startup-failure path
  timedOut,      \* services that exceeded their bounded stop time
  mgrErr,        \* "none" | "nil" | "error": result of m.Run
  readyFired,    \* ready channel signalled
  stoppedFired,  \* stopped channel signalled
  registry,      \* the manager's ordered registry of service names
  regResult,     \* the last register call: its name and its error
  cfg,           \* the MicroshiftConfig under construction
  cpc,           \* position in ReadAndValidate
  cfgErr,        \* "" | source whose read failed | cause of the klog.Fatal
  fileIn,        \* what the config file supplied
  envIn,         \* what the environment supplied
  flagIn         \* the command-line flag set

runVars == <<pc, env, notifySocket, fatalCause, certCtx, runCtxDone, wpc,
          sigRegistered, sigTerm, sigEver, branch, notifyCalls, notifyResult,
          log, graceElapsed, exitVia, ret, mgrPc, launched, svc, readyCalls,
          mgrCancelled, stopIdx, timedOut, mgrErr, readyFired,
          stoppedFired>>

mainVars == <<pc, env, notifySocket, fatalCause, branch, notifyCalls,
              notifyResult, graceElapsed, exitVia, ret>>
ctxVars  == <<certCtx, runCtxDone>>
sigVars  == <<sigRegistered, sigTerm, sigEver>>
mgrVars  == <<mgrPc, launched, mgrCancelled, stopIdx, timedOut, mgrErr,
              readyFired, stoppedFired>>
svcVars  == <<svc, readyCalls>>
regVars  == <<registry, regResult>>
cfgVars  == <<cfg, cpc, cfgErr, fileIn, envIn, flagIn>>
auxVars  == <<regVars, cfgVars>>

vars == <<runVars, auxVars>>

----------------------------------------------------------------------------
(* Configuration values (pkg/config) *)

\* the fields of MicroshiftConfig that are followed through the sources; the
\* remaining string fields are read exactly like NodeName and Cluster.URL
CfgFields == {"LogVLevel", "SubjectAltNames", "NodeName", "URL"}

\* NewMicroshiftConfig, on a host named node1
DefaultConfig ==
  [LogVLevel       |-> 0,
   SubjectAltNames |-> <<"node1">>,
   NodeName        |-> "node1",
   NodeIP          |-> "192.168.1.10",
   URL             |-> "https://127.0.0.1:6443",
   ServiceCIDR     |-> "10.43.0.0/16",
   DNS             |-> ""]

\* a field a source may leave out (set = FALSE) or supply
Opt(vals, zero) ==
  {[set |-> FALSE, val |-> zero]} \cup {[set |-> TRUE, val |-> v] : v \in vals}

\* contents of a config file or of the MICROSHIFT_* environment
Docs ==
  [LogVLevel       : Opt({2}, 0),
   SubjectAltNames : Opt({<<>>, <<"api.example.com">>, <<"localhost">>}, <<>>),
   NodeName        : Opt({"api.example.com"}, ""),
   URL             : Opt({"https://node1", "https://api.example.com"}, "")]

\* a source that supplies nothing
NoDoc ==
  [LogVLevel       |-> [set |-> FALSE, val |-> 0],
   SubjectAltNames |-> [set |-> FALSE, val |-> <<>>],
   NodeName        |-> [set |-> FALSE, val |-> ""],
   URL             |-> [set |-> FALSE, val |-> ""]]

\* pflag flag sets: per flag its Changed bit and its value (as a string for
\* "v", which is read through Value.String())
FlagSets ==
  [v   : Opt({"2"}, "0"),
   san : Opt({<<>>, <<"api.example.com">>, <<"localhost">>}, <<>>),
   nodeName : Opt({"api.example.com"}, ""),
   url : Opt({"https://node1", "https://api.example.com"}, "")]

\* a command line without flags
NoFlags ==
  [v        |-> [set |-> FALSE, val |-> "0"],
   san      |-> [set |-> FALSE, val |-> <<>>],
   nodeName |-> [set |-> FALSE, val |-> ""],
   url      |-> [set |-> FALSE, val |-> ""]]

\* strconv.Atoi on the strings a "v" flag takes here; the error is dropped
\* by the caller and the result is then 0
Atoi(str) == CASE str = "0" -> 0 [] str = "2" -> 2 [] OTHER -> 0

\* url.Parse(...).Host : host and port of the URL
UrlHost(u) ==
  CASE u = "https://127.0.0.1:6443"  -> "127.0.0.1:6443"
    [] u = "https://node1"           -> "node1"
    [] u = "https://api.example.com" -> "api.example.com"
    [] OTHER                         -> ""

\* names and service IP of the apiserver that must stay out of the SANs
ApiServerNames ==
  {"kubernetes", "kubernetes.default", "kubernetes.default.svc",
   "kubernetes.default.svc.cluster.local", "openshift", "openshift.default",
   "openshift.default.svc", "openshift.default.svc.cluster.local",
   "10.43.0.1"}

----------------------------------------------------------------------------
(* Helpers *)

\* os.Getenv: an unset variable reads as the empty string
Getenv(e) == IF e = Unset THEN "" ELSE e

\* the scope a service runs under is done
ScopeDone == runCtxDone \/ mgrCancelled

\* a service has signalled readiness at least once
IsReady(i) == readyCalls[i] > 0

\* every registered service has signalled readiness
AllReady == \A i \in Services : IsReady(i)

\* a service's run has returned
Returned(i) == svc[i] \in {"stopped", "failed"}

\* coordinator states of the specification
WaitingForReady == pc = "select"
Ready           == pc \in {"setenv", "sdnotify", "awaitSig"}
ShuttingDown    == pc \in {"cancel", "grace"}
Stopped         == pc = "done"

Init ==
  /\ pc = "start"
  /\ env \in NotifySocketValues
  /\ notifySocket = ""
  /\ fatalCause = ""
  /\ certCtx = "none"
  /\ runCtxDone = FALSE
  /\ wpc = "idle"
  /\ sigRegistered = FALSE
  /\ sigTerm = <<>>
  /\ sigEver = FALSE
  /\ branch = ""
  /\ notifyCalls = 0
  /\ notifyResult = ""
  /\ log = {}
  /\ graceElapsed = 0
  /\ exitVia = ""
  /\ ret = "none"
  /\ mgrPc = "idle"
  /\ launched = 0
  /\ svc = [i \in Services |-> "notStarted"]
  /\ readyCalls = [i \in Services |-> 0]
  /\ mgrCancelled = FALSE
  /\ stopIdx = 0
  /\ timedOut = {}
  /\ mgrErr = "none"
  /\ readyFired = FALSE
  /\ stoppedFired = FALSE
  /\ registry = <<>>
  /\ regResult = [name |-> 0, err |-> "none"]
  /\ cfg = DefaultConfig
  /\ cpc = "new"
  /\ cfgErr = ""
  /\ fileIn = NoDoc
  /\ envIn = NoDoc
  /\ flagIn = NoFlags

----------------------------------------------------------------------------
(* Service registry (specification §3, §4.2) *)

\* names held by a registry
RegistryNames(reg) == {reg[i] : i \in 1..Len(reg)}

\* variant of RegisterErr: the name is not looked up
RegisterErr_NoLookup(reg, running, name) ==
  IF running THEN "AlreadyRunning" ELSE "nil"

\* error returned by register(service)
RegisterErr(reg, running, name) ==
  IF running THEN "AlreadyRunning"
  ELSE IF \E i \in 1..Len(reg) : reg[i] = name THEN "DuplicateName"
  ELSE "nil"

\* registry after register(service): insertion order is kept
Register(reg, running, name) ==
  IF RegisterErr(reg, running, name) = "nil" THEN Append(reg, name) ELSE reg

RECURSIVE RegisterAll(_, _)
\* the AddService calls of RunMicroshift, one after the other
RegisterAll(reg, names) ==
  IF names = <<>> THEN reg
  ELSE RegisterAll(Register(reg, FALSE, Head(names)), Tail(names))

\* one register call on a manager that is not running yet
RegisterCall ==
  /\ pc = "start"
  /\ mgrPc = "idle"
  /\ \E n \in RegNames :
       /\ regResult' = [name |-> n, err |-> RegisterErr(registry, mgrPc # "idle", n)]
       /\ registry' = Register(registry, mgrPc # "idle", n)
  /\ UNCHANGED <<runVars, cfgVars>>

----------------------------------------------------------------------------
(* MicroshiftConfig.ReadAndValidate (pkg/config/config.go) *)

\* stringSliceContains: some value of the list equals some element
stringSliceContains(list, elements) ==
  \E i \in 1..Len(list) : \E e \in elements : list[i] = e

\* yaml.Unmarshal / envconfig.Process: the fields the source supplies are
\* overwritten, the others keep their value
ApplyDoc(c, d) ==
  [c EXCEPT !.LogVLevel       = IF d.LogVLevel.set THEN d.LogVLevel.val ELSE @,
            !.SubjectAltNames = IF d.SubjectAltNames.set
                                  THEN d.SubjectAltNames.val ELSE @,
            !.NodeName        = IF d.NodeName.set THEN d.NodeName.val ELSE @,
            !.URL             = IF d.URL.set THEN d.URL.val ELSE @]

\* variant of ReadFromCmdLine: the flag values are taken whether or not the
\* flags were changed
ReadFromCmdLine_NoChangedCheck(c, flags) ==
  [c EXCEPT !.LogVLevel       = Atoi(flags.v.val),
            !.SubjectAltNames = flags.san.val,
            !.NodeName        = flags.nodeName.val,
            !.URL             = flags.url.val]

\* ReadFromCmdLine: a field is overwritten when its flag was changed
ReadFromCmdLine(c, flags) ==
  [c EXCEPT !.LogVLevel       = IF flags.v.set THEN Atoi(flags.v.val) ELSE @,
            !.SubjectAltNames = IF flags.san.set THEN flags.san.val ELSE @,
            !.NodeName        = IF flags.nodeName.set
                                  THEN flags.nodeName.val ELSE @,
            !.URL             = IF flags.url.set THEN flags.url.val ELSE @]

\* getClusterDNS: the 10th address of the service network ("" on error)
getClusterDNS(serviceCIDR) ==
  IF serviceCIDR = "10.43.0.0/16" THEN "10.43.0.10" ELSE ""

\* the validation half of ReadAndValidate: "ok" or the klog.Fatal reached
ValidateResult(c) ==
  IF getClusterDNS(c.ServiceCIDR) = "" THEN "dns"
  ELSE IF /\ Len(c.SubjectAltNames) > 0
          /\ stringSliceContains(c.SubjectAltNames,
                                 {"localhost", "127.0.0.1", c.NodeIP})
    THEN "san-local"
  ELSE IF /\ Len(c.SubjectAltNames) > 0
          /\ stringSliceContains(c.SubjectAltNames, ApiServerNames)
    THEN "san-apiserver"
  ELSE IF \/ ~stringSliceContains(c.SubjectAltNames, {UrlHost(c.URL)})
          \/ UrlHost(c.URL) # c.NodeName
    THEN "url-host"
  ELSE "ok"

\* if configFile != "" { ReadFromConfigFile }: no file, a file that is
\* applied, or an error (after which the decoder may have filled some fields)
CfgReadFile ==
  /\ pc = "start"
  /\ cpc = "new"
  /\ \/ /\ cpc' = "env"
        /\ UNCHANGED <<cfg, cfgErr, fileIn>>
     \/ \E d \in Docs, ok \in BOOLEAN :
          /\ fileIn' = d
          /\ cfg' = ApplyDoc(cfg, d)
          /\ cpc' = IF ok THEN "env" ELSE "error"
          /\ cfgErr' = IF ok THEN cfgErr ELSE "file"
  /\ UNCHANGED <<runVars, regVars, envIn, flagIn>>

\* ReadFromEnv
CfgReadEnv ==
  /\ pc = "start"
  /\ cpc = "env"
  /\ \E d \in Docs, ok \in BOOLEAN :
       /\ envIn' = d
       /\ cfg' = ApplyDoc(cfg, d)
       /\ cpc' = IF ok THEN "cmdline" ELSE "error"
       /\ cfgErr' = IF ok THEN cfgErr ELSE "env"
  /\ UNCHANGED <<runVars, regVars, fileIn, flagIn>>

\* ReadFromCmdLine(flags): always returns nil
CfgReadCmdLine ==
  /\ pc = "start"
  /\ cpc = "cmdline"
  /\ \E fl \in FlagSets :
       /\ flagIn' = fl
       /\ cfg' = ReadFromCmdLine(cfg, fl)
  /\ cpc' = "validate"
  /\ UNCHANGED <<runVars, regVars, cfgErr, fileIn, envIn>>

\* the checks after the three sources: Cluster.DNS is set, then the
\* subjectAltNames and the cluster URL are checked
CfgValidate ==
  /\ pc = "start"
  /\ cpc = "validate"
  /\ cfg' = IF ValidateResult(cfg) = "dns" THEN cfg
            ELSE [cfg EXCEPT !.DNS = getClusterDNS(cfg.ServiceCIDR)]
  /\ cpc' = IF ValidateResult(cfg) = "ok" THEN "ok" ELSE "fatal"
  /\ cfgErr' = IF ValidateResult(cfg) = "ok" THEN cfgErr ELSE ValidateResult(cfg)
  /\ UNCHANGED <<runVars, regVars, fileIn, envIn, flagIn>>

CfgNext == CfgReadFile \/ CfgReadEnv \/ CfgReadCmdLine \/ CfgValidate

----------------------------------------------------------------------------
(* RunMicroshift, up to the trigger select *)

\* configuration, privilege check, NO_PROXY, certificates, kubeconfigs and
\* service registration (m.AddService under util.Must): any fault is fatal
Preflight ==
  /\ pc = "start"
  /\ \E f \in PreflightFaults \cup {"none"} :
       IF f = "none"
         THEN pc' = "stashEnv" /\ UNCHANGED fatalCause
         ELSE pc' = "fatal" /\ fatalCause' = f
  /\ registry' = IF pc' = "stashEnv" THEN RegisterAll(<<>>, ServiceNames)
                                     ELSE registry
  /\ UNCHANGED <<env, notifySocket, branch, notifyCalls, notifyResult,
                 log, graceElapsed, exitVia, ret, ctxVars, wpc, sigVars,
                 mgrVars, svcVars, regResult, cfgVars>>

\* variant of StashEnv: the value is stored but NOTIFY_SOCKET is not cleared
StashEnv_KeepsEnv ==
  /\ pc = "stashEnv"
  /\ notifySocket' = Getenv(env)
  /\ pc' = "rotation"
  /\ UNCHANGED <<env, fatalCause, branch, notifyCalls, notifyResult, log,
                 graceElapsed, exitVia, ret, ctxVars, wpc, sigVars, mgrVars,
                 svcVars, auxVars>>

\* notifySocket := os.Getenv("NOTIFY_SOCKET"); os.Unsetenv("NOTIFY_SOCKET")
StashEnv ==
  /\ pc = "stashEnv"
  /\ notifySocket' = Getenv(env)
  /\ env' = Unset
  /\ pc' = "rotation"
  /\ UNCHANGED <<fatalCause, branch, notifyCalls, notifyResult, log,
                 graceElapsed, exitVia, ret, ctxVars, wpc, sigVars, mgrVars,
                 svcVars, auxVars>>

\* variant of Rotation: a failure to compute the date is logged, not fatal
Rotation_LogsOnly ==
  /\ pc = "rotation"
  /\ \E ok \in BOOLEAN :
       /\ pc' = "spawnWatcher"
       /\ certCtx' = "active"
       /\ fatalCause' = IF ok THEN fatalCause ELSE "rotation"
  /\ UNCHANGED <<env, notifySocket, branch, notifyCalls, notifyResult,
                 log, graceElapsed, exitVia, ret, runCtxDone, wpc, sigVars,
                 mgrVars, svcVars, auxVars>>

\* WhenToRotateAtEarliest, then context.WithDeadline and context.WithCancel
Rotation ==
  /\ pc = "rotation"
  /\ \E ok \in BOOLEAN :
       IF ok
         THEN /\ pc' = "spawnWatcher"
              /\ certCtx' = "active"
              /\ UNCHANGED fatalCause
         ELSE /\ pc' = "fatal"
              /\ fatalCause' = "rotation"
              /\ UNCHANGED certCtx
  /\ UNCHANGED <<env, notifySocket, branch, notifyCalls, notifyResult,
                 log, graceElapsed, exitVia, ret, runCtxDone, wpc, sigVars,
                 mgrVars, svcVars, auxVars>>

\* go func() { select { certCtx.Done / runCtx.Done } }()
SpawnWatcher ==
  /\ pc = "spawnWatcher"
  /\ wpc' = "select"
  /\ pc' = "spawnManager"
  /\ UNCHANGED <<env, notifySocket, fatalCause, branch, notifyCalls,
                 notifyResult, log, graceElapsed, exitVia, ret, ctxVars,
                 sigVars, mgrVars, svcVars, auxVars>>

\* ready, stopped := make(chan ...); go func() { m.Run(runCtx, ready, stopped) }()
\* (the goroutine only logs what m.Run returns)
SpawnManager ==
  /\ pc = "spawnManager"
  /\ mgrPc' = "startup"
  /\ pc' = "sigNotify"
  /\ UNCHANGED <<env, notifySocket, fatalCause, branch, notifyCalls,
                 notifyResult, log, graceElapsed, exitVia, ret, ctxVars, wpc,
                 sigVars, launched, mgrCancelled, stopIdx, timedOut, mgrErr,
                 readyFired, stoppedFired, svcVars, auxVars>>

\* sigTerm := make(chan os.Signal, 1); signal.Notify(sigTerm, ...)
SigNotify ==
  /\ pc = "sigNotify"
  /\ sigRegistered' = TRUE
  /\ pc' = "select"
  /\ UNCHANGED <<env, notifySocket, fatalCause, branch, notifyCalls,
                 notifyResult, log, graceElapsed, exitVia, ret, ctxVars, wpc,
                 sigTerm, sigEver, mgrVars, svcVars, auxVars>>

----------------------------------------------------------------------------
(* RunMicroshift: the trigger select and the readiness handshake *)

\* variant of CoordReady: the ready case is taken without a receive on ready
CoordReady_Unguarded ==
  /\ pc = "select"
  /\ branch' = "ready"
  /\ pc' = "setenv"
  /\ UNCHANGED <<env, notifySocket, fatalCause, notifyCalls, notifyResult,
                 log, graceElapsed, exitVia, ret, ctxVars, wpc, sigVars,
                 mgrVars, svcVars, auxVars>>

\* case <-ready: klog.Infof("MicroShift is ready")
CoordReady ==
  /\ pc = "select"
  /\ readyFired
  /\ branch' = "ready"
  /\ pc' = "setenv"
  /\ UNCHANGED <<env, notifySocket, fatalCause, notifyCalls,
                 notifyResult, log, graceElapsed, exitVia, ret, ctxVars, wpc,
                 sigVars, mgrVars, svcVars, auxVars>>

\* os.Setenv("NOTIFY_SOCKET", notifySocket)
CoordSetenv ==
  /\ pc = "setenv"
  /\ env' = notifySocket
  /\ pc' = "sdnotify"
  /\ UNCHANGED <<notifySocket, fatalCause, branch, notifyCalls,
                 notifyResult, log, graceElapsed, exitVia, ret, ctxVars, wpc,
                 sigVars, mgrVars, svcVars, auxVars>>

\* daemon.SdNotify(false, daemon.SdNotifyReady): (false, nil) when
\* NOTIFY_SOCKET reads empty, otherwise the datagram is sent or the send fails
CoordSdNotify ==
  /\ pc = "sdnotify"
  /\ notifyCalls' = notifyCalls + 1
  /\ \E r \in {"sent", "error"} :
       notifyResult' = IF Getenv(env) = "" THEN "unsupported" ELSE r
  /\ pc' = "awaitSig"
  /\ UNCHANGED <<env, notifySocket, fatalCause, branch, log,
                 graceElapsed, exitVia, ret, ctxVars, wpc, sigVars, mgrVars,
                 svcVars, auxVars>>

\* variant of CoordAwaitSig: only the termination signal ends the wait
CoordAwaitSig_OnlySigterm ==
  /\ pc = "awaitSig"
  /\ sigTerm # <<>>
  /\ sigTerm' = Tail(sigTerm)
  /\ IF Head(sigTerm) = "SIGTERM"
       THEN log' = log \cup {"interrupt"} /\ pc' = "cancel"
       ELSE UNCHANGED <<log, pc>>
  /\ UNCHANGED <<env, notifySocket, fatalCause, branch, notifyCalls,
                 notifyResult, graceElapsed, exitVia, ret, ctxVars, wpc,
                 sigRegistered, sigEver, mgrVars, svcVars, auxVars>>

\* <-sigTerm; klog.Info("Interrupt received")   (inside the ready case)
CoordAwaitSig ==
  /\ pc = "awaitSig"
  /\ sigTerm # <<>>
  /\ sigTerm' = Tail(sigTerm)
  /\ log' = log \cup {"interrupt"}
  /\ pc' = "cancel"
  /\ UNCHANGED <<env, notifySocket, fatalCause, branch, notifyCalls,
                 notifyResult, graceElapsed, exitVia, ret, ctxVars, wpc,
                 sigRegistered, sigEver, mgrVars, svcVars, auxVars>>

\* variant of CoordSignal: the early-signal case also announces readiness
CoordSignal_AlsoNotifies ==
  /\ pc = "select"
  /\ sigTerm # <<>>
  /\ sigTerm' = Tail(sigTerm)
  /\ branch' = "signal"
  /\ notifyCalls' = notifyCalls + 1
  /\ log' = log \cup {"interrupt"}
  /\ pc' = "cancel"
  /\ UNCHANGED <<env, notifySocket, fatalCause, notifyResult, graceElapsed,
                 exitVia, ret, ctxVars, wpc, sigRegistered, sigEver, mgrVars,
                 svcVars, auxVars>>

\* case <-sigTerm: klog.Info("Interrupt received")
CoordSignal ==
  /\ pc = "select"
  /\ sigTerm # <<>>
  /\ sigTerm' = Tail(sigTerm)
  /\ branch' = "signal"
  /\ log' = log \cup {"interrupt"}
  /\ pc' = "cancel"
  /\ UNCHANGED <<env, notifySocket, fatalCause, notifyCalls,
                 notifyResult, graceElapsed, exitVia, ret, ctxVars, wpc,
                 sigRegistered, sigEver, mgrVars, svcVars, auxVars>>

\* case <-runCtx.Done():
CoordRunDone ==
  /\ pc = "select"
  /\ runCtxDone
  /\ branch' = "runCtxDone"
  /\ pc' = "cancel"
  /\ UNCHANGED <<env, notifySocket, fatalCause, notifyCalls,
                 notifyResult, log, graceElapsed, exitVia, ret, ctxVars, wpc,
                 sigVars, mgrVars, svcVars, auxVars>>

----------------------------------------------------------------------------
(* RunMicroshift: cancellation and the grace period *)

\* variant of CoordCancel: the grace select is entered without runCancel()
CoordCancel_NoCancel ==
  /\ pc = "cancel"
  /\ graceElapsed' = 0
  /\ pc' = "grace"
  /\ UNCHANGED <<env, notifySocket, fatalCause, branch, notifyCalls,
                 notifyResult, log, exitVia, ret, ctxVars, wpc, sigVars,
                 mgrVars, svcVars, auxVars>>

\* klog.Info("Stopping services"); runCancel(); time.After(...) is armed
CoordCancel ==
  /\ pc = "cancel"
  /\ runCtxDone' = TRUE
  /\ graceElapsed' = 0
  /\ pc' = "grace"
  /\ UNCHANGED <<env, notifySocket, fatalCause, branch, notifyCalls,
                 notifyResult, log, exitVia, ret, certCtx, wpc, sigVars,
                 mgrVars, svcVars, auxVars>>

\* time passes until the time.After timer expires; nothing else in the
\* program reads the clock, so the instants in between are not distinguished
Tick ==
  /\ pc = "grace"
  /\ graceElapsed < gracefulShutdownTimeout
  /\ graceElapsed' = gracefulShutdownTimeout
  /\ UNCHANGED <<pc, env, notifySocket, fatalCause, branch,
                 notifyCalls, notifyResult, log, exitVia, ret, ctxVars, wpc,
                 sigVars, mgrVars, svcVars, auxVars>>

\* variant of CoordStopped: the case is taken without a receive on stopped
CoordStopped_Unguarded ==
  /\ pc = "grace"
  /\ exitVia' = "stopped"
  /\ ret' = "nil"
  /\ pc' = "done"
  /\ UNCHANGED <<env, notifySocket, fatalCause, branch, notifyCalls,
                 notifyResult, log, graceElapsed, ctxVars, wpc, sigVars,
                 mgrVars, svcVars, auxVars>>

\* case <-stopped:  then "MicroShift stopped"; return nil
CoordStopped ==
  /\ pc = "grace"
  /\ stoppedFired
  /\ exitVia' = "stopped"
  /\ ret' = "nil"
  /\ pc' = "done"
  /\ UNCHANGED <<env, notifySocket, fatalCause, branch, notifyCalls,
                 notifyResult, log, graceElapsed, ctxVars, wpc, sigVars,
                 mgrVars, svcVars, auxVars>>

\* variant of CoordTimeout: after the timeout the wait on stopped goes on
CoordTimeout_NeedsStopped ==
  /\ pc = "grace"
  /\ graceElapsed = gracefulShutdownTimeout
  /\ stoppedFired
  /\ exitVia' = "timeout"
  /\ ret' = "nil"
  /\ pc' = "done"
  /\ UNCHANGED <<env, notifySocket, fatalCause, branch, notifyCalls,
                 notifyResult, log, graceElapsed, ctxVars, wpc, sigVars,
                 mgrVars, svcVars, auxVars>>

\* case <-time.After(gracefulShutdownTimeout * time.Second):
\* "Timed out waiting for services to stop"; "MicroShift stopped"; return nil
CoordTimeout ==
  /\ pc = "grace"
  /\ graceElapsed = gracefulShutdownTimeout
  /\ exitVia' = "timeout"
  /\ ret' = "nil"
  /\ pc' = "done"
  /\ UNCHANGED <<env, notifySocket, fatalCause, branch, notifyCalls,
                 notifyResult, log, graceElapsed, ctxVars, wpc, sigVars,
                 mgrVars, svcVars, auxVars>>

----------------------------------------------------------------------------
(* Certificate watcher goroutine *)

\* variant of WatcherCert: the rotation is logged but runCancel() is missing
WatcherCert_NoCancel ==
  /\ wpc = "select"
  /\ certCtx \in {"deadline", "canceled"}
  /\ log' = log \cup {"rotation"}
  /\ wpc' = "done"
  /\ UNCHANGED <<mainVars, ctxVars, sigVars, mgrVars, svcVars, auxVars>>

\* variant of WatcherCert: the case does not wait for certCtx to be done
WatcherCert_Unguarded ==
  /\ wpc = "select"
  /\ log' = log \cup {"rotation"}
  /\ runCtxDone' = TRUE
  /\ wpc' = "done"
  /\ UNCHANGED <<mainVars, certCtx, sigVars, mgrVars, svcVars, auxVars>>

\* case <-certCtx.Done(): "Stopping services for certificate rotation"; runCancel()
WatcherCert ==
  /\ wpc = "select"
  /\ certCtx \in {"deadline", "canceled"}
  /\ log' = log \cup {"rotation"}
  /\ runCtxDone' = TRUE
  /\ wpc' = "done"
  /\ UNCHANGED <<mainVars, certCtx, sigVars, mgrVars, svcVars, auxVars>>

\* variant of WatcherRun: the watcher exits without certCancel()
WatcherRun_NoCertCancel ==
  /\ wpc = "select"
  /\ runCtxDone
  /\ wpc' = "done"
  /\ UNCHANGED <<mainVars, log, ctxVars, sigVars, mgrVars, svcVars, auxVars>>

\* case <-runCtx.Done(): "Certificate watcher exiting"; certCancel()
WatcherRun ==
  /\ wpc = "select"
  /\ runCtxDone
  /\ certCtx' = IF certCtx = "active" THEN "canceled" ELSE certCtx
  /\ wpc' = "done"
  /\ UNCHANGED <<mainVars, log, runCtxDone, sigVars, mgrVars, svcVars, auxVars>>

----------------------------------------------------------------------------
(* Environment: the rotation date passes, the operator sends a signal *)

\* the deadline of certCtx elapses (possibly at once, for a date in the past)
DeadlineElapse ==
  /\ certCtx = "active"
  /\ certCtx' = "deadline"
  /\ UNCHANGED <<mainVars, log, runCtxDone, wpc, sigVars, mgrVars,
                 svcVars, auxVars>>

\* os/signal delivers without blocking: a signal is dropped when the
\* one-slot channel is full.  Signals sent after the coordinator's last
\* receive from sigTerm are never read and are left out.
SendSignal ==
  /\ sigRegistered
  /\ pc \in {"select", "setenv", "sdnotify", "awaitSig"}
  /\ \E s \in Signals :
       sigTerm' = IF Len(sigTerm) < 1 THEN Append(sigTerm, s) ELSE sigTerm
  /\ sigEver' = TRUE
  /\ UNCHANGED <<mainVars, log, ctxVars, wpc, sigRegistered, mgrVars,
                 svcVars, auxVars>>

----------------------------------------------------------------------------
(* Service contract (specification §4.1) *)

\* the service invokes its readiness signal; a repeated call is tolerated
SvcReady(i) ==
  /\ svc[i] = "running"
  /\ readyCalls[i] < MaxReadyCalls
  /\ readyCalls' = [readyCalls EXCEPT ![i] = @ + 1]
  /\ UNCHANGED <<mainVars, log, ctxVars, wpc, sigVars, mgrVars, svc, auxVars>>

\* run returns an error: an unrecoverable internal fault
SvcFail(i) ==
  /\ svc[i] = "running"
  /\ svc' = [svc EXCEPT ![i] = "failed"]
  /\ UNCHANGED <<mainVars, log, ctxVars, wpc, sigVars, mgrVars,
                 readyCalls, auxVars>>

\* run observes the cancelled scope and returns nil
SvcStop(i) ==
  /\ svc[i] = "running"
  /\ ScopeDone
  /\ svc' = [svc EXCEPT ![i] = "stopped"]
  /\ UNCHANGED <<mainVars, log, ctxVars, wpc, sigVars, mgrVars,
                 readyCalls, auxVars>>

----------------------------------------------------------------------------
(* Service manager (specification §4.2) and the goroutine around m.Run *)

\* a launched service returned an error without having signalled readiness
StartupFailed(i) == i <= launched /\ svc[i] = "failed" /\ ~IsReady(i)

\* startup phase: the next service in registration order is launched
MgrLaunch ==
  /\ mgrPc = "startup"
  /\ launched < NumServices
  /\ launched' = launched + 1
  /\ svc' = [svc EXCEPT ![launched + 1] = "running"]
  /\ UNCHANGED <<mainVars, log, ctxVars, wpc, sigVars, mgrPc,
                 mgrCancelled, stopIdx, timedOut, mgrErr, readyFired,
                 stoppedFired, readyCalls, auxVars>>

\* aggregate readiness: the one signal on readyOut
MgrReady ==
  /\ mgrPc = "startup"
  /\ launched = NumServices
  /\ AllReady
  /\ readyFired' = TRUE
  /\ mgrPc' = "steady"
  /\ UNCHANGED <<mainVars, log, ctxVars, wpc, sigVars, launched,
                 mgrCancelled, stopIdx, timedOut, mgrErr, stoppedFired,
                 svcVars, auxVars>>

\* variant of MgrStartupFailure: the shared scope is left running
MgrStartupFailure_NoCancel ==
  /\ mgrPc = "startup"
  /\ \E i \in Services : StartupFailed(i)
  /\ stopIdx' = launched
  /\ mgrPc' = "failStop"
  /\ UNCHANGED <<mainVars, log, ctxVars, wpc, sigVars, launched, mgrCancelled,
                 timedOut, mgrErr, readyFired, stoppedFired, svcVars, auxVars>>

\* fatal startup failure: cancel the shared scope, stop the others in
\* reverse registration order
MgrStartupFailure ==
  /\ mgrPc = "startup"
  /\ \E i \in Services : StartupFailed(i)
  /\ mgrCancelled' = TRUE
  /\ stopIdx' = launched
  /\ mgrPc' = "failStop"
  /\ UNCHANGED <<mainVars, log, ctxVars, wpc, sigVars, launched,
                 timedOut, mgrErr, readyFired, stoppedFired,
                 svcVars, auxVars>>

\* startup-failure path: the service under the cursor has returned, or its
\* bounded time to exit has run out
MgrFailStop ==
  /\ mgrPc = "failStop"
  /\ stopIdx > 0
  /\ \/ Returned(stopIdx) /\ UNCHANGED timedOut
     \/ ~Returned(stopIdx) /\ timedOut' = timedOut \cup {stopIdx}
  /\ stopIdx' = stopIdx - 1
  /\ UNCHANGED <<mainVars, log, ctxVars, wpc, sigVars, mgrPc,
                 launched, mgrCancelled, mgrErr, readyFired,
                 stoppedFired, svcVars, auxVars>>

\* startup-failure path: Run returns the error, readyOut was never written
MgrFailReturn ==
  /\ mgrPc = "failStop"
  /\ stopIdx = 0
  /\ mgrErr' = "error"
  /\ mgrPc' = "returned"
  /\ UNCHANGED <<mainVars, log, ctxVars, wpc, sigVars, launched,
                 mgrCancelled, stopIdx, timedOut, readyFired,
                 stoppedFired, svcVars, auxVars>>

\* variant of MgrScopeCancelled: in steady state a failed service makes the
\* manager cancel the shared scope
MgrScopeCancelled_OnFailure ==
  /\ mgrPc \in {"startup", "steady"}
  /\ \/ runCtxDone /\ UNCHANGED mgrCancelled
     \/ mgrPc = "steady" /\ (\E i \in Services : svc[i] = "failed")
          /\ mgrCancelled' = TRUE
  /\ mgrPc' = "waitAll"
  /\ UNCHANGED <<mainVars, log, ctxVars, wpc, sigVars, launched,
                 stopIdx, timedOut, mgrErr, readyFired, stoppedFired,
                 svcVars, auxVars>>

\* shutdown phase: the scope handed to Run has been cancelled
MgrScopeCancelled ==
  /\ mgrPc \in {"startup", "steady"}
  /\ runCtxDone
  /\ mgrPc' = "waitAll"
  /\ UNCHANGED <<mainVars, log, ctxVars, wpc, sigVars, launched,
                 mgrCancelled, stopIdx, timedOut, mgrErr, readyFired,
                 stoppedFired, svcVars, auxVars>>

\* shutdown phase: every launched run has returned; the aggregate outcome
\* goes to stoppedOut and Run returns it
MgrStopped ==
  /\ mgrPc = "waitAll"
  /\ \A i \in 1..launched : Returned(i)
  /\ stoppedFired' = TRUE
  /\ mgrErr' = IF \E i \in 1..launched : svc[i] = "failed" THEN "error" ELSE "nil"
  /\ mgrPc' = "returned"
  /\ UNCHANGED <<mainVars, log, ctxVars, wpc, sigVars, launched,
                 mgrCancelled, stopIdx, timedOut, readyFired,
                 svcVars, auxVars>>

----------------------------------------------------------------------------
Main ==
  \/ Preflight \/ StashEnv \/ Rotation \/ SpawnWatcher \/ SpawnManager
  \/ SigNotify

Coordinator ==
  \/ CoordReady \/ CoordSetenv \/ CoordSdNotify \/ CoordAwaitSig
  \/ CoordSignal \/ CoordRunDone \/ CoordCancel \/ CoordStopped
  \/ CoordTimeout

Watcher == WatcherCert \/ WatcherRun

Manager ==
  \/ MgrLaunch \/ MgrReady \/ MgrStartupFailure \/ MgrFailStop
  \/ MgrFailReturn \/ MgrScopeCancelled \/ MgrStopped

Service == \E i \in Services : SvcReady(i) \/ SvcFail(i) \/ SvcStop(i)

Environment == DeadlineElapse \/ SendSignal

Next == Main \/ Coordinator \/ Tick \/ Watcher \/ Manager \/ Service \/ Environment

Spec == Init /\ [][Next]_vars

\* Goroutines that are runnable get scheduled and timers fire; services,
\* the operator and the rotation date are under no obligation.
FairSpec ==
  /\ Spec
  /\ WF_vars(Main)
  /\ WF_vars(Coordinator)
  /\ WF_vars(Tick)
  /\ WF_vars(Watcher)
  /\ WF_vars(Manager)

\* register calls alone, on a manager that has not been started
RegSpec == Init /\ [][RegisterCall]_vars

\* ReadAndValidate alone; it does not touch NOTIFY_SOCKET
CfgInit == Init /\ env = Unset

CfgSpec == CfgInit /\ [][CfgNext]_vars

TypeOK ==
  /\ pc \in {"start", "stashEnv", "rotation", "spawnWatcher", "spawnManager",
             "sigNotify", "select", "setenv", "sdnotify", "awaitSig",
             "cancel", "grace", "done", "fatal"}
  /\ env \in NotifySocketValues
  /\ certCtx \in {"none", "active", "deadline", "canceled"}
  /\ wpc \in {"idle", "select", "done"}
  /\ Len(sigTerm) <= 1
  /\ graceElapsed \in 0..gracefulShutdownTimeout
  /\ launched \in 0..NumServices
  /\ \A i \in Services : readyCalls[i] \in 0..MaxReadyCalls

----------------------------------------------------------------------------
(* Shorthands for the properties *)

\* the trigger select has been left through the ready case and the
\* handshake is over
HandshakeOver == branch = "ready" /\ pc \in {"awaitSig", "cancel", "grace", "done"}

\* services that have signalled readiness
ReadySet == {i \in Services : IsReady(i)}

\* some launched service failed before signalling readiness
SomeStartupFailure == \E i \in Services : StartupFailed(i)

----------------------------------------------------------------------------
(* Properties *)

\* C1: sd_notify is called at most once and only after the ready channel
\* fired; once the ready case has run it has been called exactly once; when
\* the signal or the run-context case was taken it is never called.
C1_NotifyOnce ==
  /\ notifyCalls <= 1
  /\ notifyCalls > 0 => readyFired /\ branch = "ready"
  /\ HandshakeOver => notifyCalls = 1
  /\ branch \in {"signal", "runCtxDone"} => notifyCalls = 0

C1_Witness == pc = "done" /\ branch = "ready" /\ notifyCalls = 1

\* C2 (as claimed): once the rotation deadline has elapsed, the coordinator
\* reaches Stopped unless an operator signal is sent.
C2_DeadlineStops == (certCtx = "deadline") ~> (Stopped \/ sigEver)

\* C3 (as claimed): when the manager's Run has returned on its own while the
\* coordinator is in WaitingForReady or Ready, the coordinator goes on to
\* ShuttingDown without needing a signal or the deadline.
C3_SessionEndStops ==
  (mgrPc = "returned" /\ mgrCancelled /\ (WaitingForReady \/ Ready))
    ~> (ShuttingDown \/ Stopped \/ sigEver \/ certCtx = "deadline")

\* C4 (as claimed): at most one shutdown reason is ever logged in a session.
C4_OneReason == Cardinality(log) <= 1

\* C5: from ShuttingDown the coordinator always reaches Stopped, through the
\* stopped channel or through the expiry of the grace timer, even with a
\* service that never returns.
C5_GraceBounded ==
  /\ ShuttingDown ~> Stopped
  /\ [](Stopped => \/ exitVia = "stopped" /\ stoppedFired
                   \/ exitVia = "timeout" /\ graceElapsed = gracefulShutdownTimeout)

C5_Witness ==
  /\ pc = "done"
  /\ exitVia = "timeout"
  /\ \E i \in Services : svc[i] = "running"

\* C6: NOTIFY_SOCKET is unset from the stash until the ready case restores
\* it; it is restored to the value read at the stash (as os.Getenv reads it)
\* and only in the ready case; it stays unset when shutdown starts without
\* readiness.
C6_SocketWithheld ==
  /\ [](pc \in {"rotation", "spawnWatcher", "spawnManager", "sigNotify",
                "select", "setenv"} => env = Unset)
  /\ []((mgrPc # "idle" /\ ~(branch = "ready" /\ pc # "setenv")) => env = Unset)
  /\ []((branch = "ready" /\ pc # "setenv") => env = notifySocket)
  /\ [](branch \in {"signal", "runCtxDone"} => env = Unset)
  /\ [][pc = "stashEnv" => notifySocket' = Getenv(env)]_vars
  /\ [][env' # env => (pc = "stashEnv" /\ env' = Unset) \/ pc = "setenv"]_vars

C6_Witness ==
  /\ pc = "awaitSig"
  /\ env = "/run/systemd/notify"
  /\ \A i \in Services : svc[i] = "running"

\* C7: a signal pending while the coordinator is in WaitingForReady or
\* Ready leads to the cancellation of the run context and to Stopped,
\* whichever signal it is; taken in WaitingForReady it leads straight to
\* ShuttingDown, without Ready and without the handshake.
C7_SignalStops ==
  /\ \A s \in Signals :
       (sigTerm = <<s>> /\ (WaitingForReady \/ Ready)) ~> (runCtxDone /\ pc \in {"grace", "done"})
  /\ \A s \in Signals :
       (sigTerm = <<s>> /\ (WaitingForReady \/ Ready)) ~> Stopped
  /\ [](branch = "signal" => notifyCalls = 0 /\ env = Unset /\ ~Ready)
  /\ [][(pc = "select" /\ branch' = "signal") => pc' = "cancel"]_vars

C7_Witness == pc = "done" /\ branch = "signal" /\ runCtxDone /\ ~readyFired

\* C8 (as claimed): after a startup fault RunMicroshift returns the
\* manager's error.
C8_ErrorPropagated ==
  (pc = "done" /\ SomeStartupFailure /\ mgrErr = "error") => ret = "error"

\* C9: the ready channel fires only when every service has signalled
\* readiness, and then it does fire unless the run context is cancelled
\* first; with fewer distinct services signalling, however often, the
\* coordinator never takes the ready case.
C9_AggregateReady ==
  /\ [](readyFired => AllReady)
  /\ []((Ready \/ branch = "ready") => AllReady /\ readyFired)
  /\ (AllReady /\ mgrPc = "startup") ~> (readyFired \/ runCtxDone)

C9_Witness ==
  /\ pc = "done"
  /\ ~readyFired
  /\ Cardinality(ReadySet) = NumServices - 1
  /\ \E i \in Services : readyCalls[i] = MaxReadyCalls

\* C10: after a startup failure the ready channel never fires, the manager's
\* Run returns an error whenever it returns, and the scope the services run
\* under gets cancelled.
C10_StartupFailure ==
  /\ [](SomeStartupFailure => ~readyFired)
  /\ []((SomeStartupFailure /\ mgrPc = "returned") => mgrErr = "error")
  /\ [](mgrPc \in {"failStop", "returned"} => ScopeDone)
  /\ SomeStartupFailure ~> ScopeDone

C10_Witness ==
  /\ mgrPc = "returned"
  /\ mgrErr = "error"
  /\ mgrCancelled
  /\ ~runCtxDone
  /\ ~readyFired
  /\ \E i \in Services : svc[i] = "stopped"

\* the certificate-deadline context is done
CertCtxDone == certCtx \in {"deadline", "canceled"}

\* C11: a fatal precondition fault (privilege, certificates, kubeconfigs,
\* registration, rotation date, ...) ends the process with the manager's Run
\* never launched, no service started and no goroutine spawned; nothing
\* happens after it.
C11_FatalBeforeRun ==
  /\ [](fatalCause # "" =>
          /\ pc = "fatal"
          /\ fatalCause \in PreflightFaults \cup {"rotation"}
          /\ mgrPc = "idle" /\ launched = 0 /\ wpc = "idle"
          /\ \A i \in Services : svc[i] = "notStarted")
  /\ [](pc = "fatal" => fatalCause # "")
  /\ [][pc = "fatal" => UNCHANGED <<pc, mgrVars, svcVars>>]_vars

C11_Witness ==
  /\ pc = "fatal"
  /\ fatalCause = "rotation"
  /\ env = Unset
  /\ mgrPc = "idle"

\* C13: once aggregate readiness has been emitted the manager never cancels
\* the shared scope, and while the run context is not cancelled no running
\* service is stopped: a service leaves "running" only through its own
\* error.
C13_NoSiblingStop ==
  /\ [](readyFired => ~mgrCancelled)
  /\ [][(readyFired /\ ~runCtxDone) =>
          \A i \in Services :
            svc[i] = "running" => svc'[i] \in {"running", "failed"}]_vars
  /\ [][(readyFired /\ \E i \in Services : svc[i] = "running" /\ svc'[i] = "failed")
          => UNCHANGED <<runCtxDone, mgrCancelled, mgrPc>>]_vars

C13_Witness ==
  /\ readyFired
  /\ mgrPc = "steady"
  /\ ~ScopeDone
  /\ \E i \in Services : svc[i] = "failed"
  /\ \E i \in Services : svc[i] = "running"

\* C14: once the certificate context is done by its deadline, the run
\* context gets cancelled, whatever the coordinator is doing and with or
\* without a signal: by the watcher's deadline case unless the coordinator
\* has cancelled it already; it is the watcher that cancels it while the
\* coordinator sits in Ready.
C14_DeadlineEscalates ==
  /\ (certCtx = "deadline") ~> runCtxDone
  /\ []((certCtx = "deadline" /\ wpc = "done") => runCtxDone)
  /\ [][(Ready /\ ~runCtxDone /\ runCtxDone') =>
          certCtx = "deadline" /\ wpc = "select" /\ wpc' = "done"
            /\ "rotation" \in log']_vars

C14_Witness ==
  /\ certCtx = "deadline"
  /\ runCtxDone
  /\ pc = "awaitSig"
  /\ ~sigEver
  /\ \E i \in Services : svc[i] = "stopped"

\* C15: while the coordinator waits in the grace select the run context is
\* cancelled, and a cancelled run context stays cancelled.
C15_CancelBeforeWait ==
  /\ [](pc = "grace" => runCtxDone)
  /\ [][runCtxDone => runCtxDone']_vars

C15_Witness ==
  /\ pc = "grace"
  /\ runCtxDone
  /\ wpc = "select"
  /\ certCtx = "active"

\* C16: the stopped channel fires only when the scope is cancelled and every
\* launched service has returned; no service is running once it has fired,
\* so none is running when the coordinator leaves through the stopped case.
C16_StoppedAfterAll ==
  /\ stoppedFired => ScopeDone /\ \A i \in 1..launched : Returned(i)
  /\ stoppedFired => \A i \in Services : svc[i] # "running"
  /\ exitVia = "stopped" => \A i \in Services : svc[i] # "running"

C16_Witness ==
  /\ pc = "done"
  /\ exitVia = "stopped"
  /\ launched = NumServices
  /\ \A i \in Services : Returned(i)

\* C18: the run context goes from live to cancelled only in the watcher's
\* deadline case or in the coordinator's runCancel after the trigger select;
\* while the coordinator is in WaitingForReady or Ready and the deadline has
\* not elapsed the run context is live.
C18_NoSpuriousCancel ==
  /\ []((WaitingForReady \/ Ready) /\ certCtx # "deadline" => ~runCtxDone)
  /\ [][(~runCtxDone /\ runCtxDone') =>
          \/ wpc = "select" /\ certCtx = "deadline" /\ wpc' = "done"
          \/ pc = "cancel" /\ pc' = "grace"]_vars

C18_Witness ==
  /\ pc = "awaitSig"
  /\ certCtx = "active"
  /\ ~runCtxDone
  /\ sigTerm # <<>>

\* C19: the watcher goroutine ends once either context is done; when it has
\* ended both contexts are done; after the coordinator has stopped, the run
\* context is cancelled and the watcher ends with the certificate context
\* done as well.
C19_WatcherEnds ==
  /\ (wpc = "select" /\ (runCtxDone \/ CertCtxDone)) ~> (wpc = "done")
  /\ [](wpc = "done" => runCtxDone /\ CertCtxDone)
  /\ [](Stopped => runCtxDone)
  /\ Stopped ~> (wpc = "done" /\ runCtxDone /\ CertCtxDone)

C19_Witness ==
  /\ pc = "done"
  /\ wpc = "done"
  /\ certCtx = "canceled"

\* C12: a register call with a name that is not in the registry returns no
\* error and appends the name at the end; a call with a name that is in the
\* registry returns DuplicateName and leaves the registry as it was; the
\* registry never holds a name twice.
C12_RegisterDuplicates ==
  /\ [][regVars' # regVars =>
          LET n == regResult'.name IN
            IF n \in RegistryNames(registry)
              THEN regResult'.err = "DuplicateName" /\ registry' = registry
              ELSE /\ regResult'.err = "nil"
                   /\ Len(registry') = Len(registry) + 1
                   /\ registry'[Len(registry')] = n
                   /\ SubSeq(registry', 1, Len(registry)) = registry]_vars
  /\ [](Cardinality(RegistryNames(registry)) = Len(registry))

C12_Witness ==
  /\ Len(registry) >= 2
  /\ regResult.err = "DuplicateName"
  /\ regResult.name = registry[1]

\* host of the cluster URL as ReadAndValidate sees it
CfgHost == UrlHost(cfg.URL)

\* what the sources, latest first, make of a field
Expected(f) ==
  CASE f = "LogVLevel" ->
         IF flagIn.v.set THEN Atoi(flagIn.v.val)
         ELSE IF envIn[f].set THEN envIn[f].val
         ELSE IF fileIn[f].set THEN fileIn[f].val ELSE DefaultConfig[f]
    [] f = "SubjectAltNames" ->
         IF flagIn.san.set THEN flagIn.san.val
         ELSE IF envIn[f].set THEN envIn[f].val
         ELSE IF fileIn[f].set THEN fileIn[f].val ELSE DefaultConfig[f]
    [] f = "NodeName" ->
         IF flagIn.nodeName.set THEN flagIn.nodeName.val
         ELSE IF envIn[f].set THEN envIn[f].val
         ELSE IF fileIn[f].set THEN fileIn[f].val ELSE DefaultConfig[f]
    [] f = "URL" ->
         IF flagIn.url.set THEN flagIn.url.val
         ELSE IF envIn[f].set THEN envIn[f].val
         ELSE IF fileIn[f].set THEN fileIn[f].val ELSE DefaultConfig[f]

\* the flag behind a field was changed on the command line
FlagChanged(fl, f) ==
  CASE f = "LogVLevel"       -> fl.v.set
    [] f = "SubjectAltNames" -> fl.san.set
    [] f = "NodeName"        -> fl.nodeName.set
    [] f = "URL"             -> fl.url.set

\* C17 (as claimed): once the subjectAltNames checks have passed, the cluster
\* URL is rejected exactly when its host is neither in subjectAltNames nor
\* equal to nodeName.
C17_UrlHostCheck ==
  (cpc \in {"ok", "fatal"} /\ cfgErr \in {"", "url-host"}) =>
    (cfgErr = "url-host" <=>
       ~(stringSliceContains(cfg.SubjectAltNames, {CfgHost})
           \/ CfgHost = cfg.NodeName))

\* C20: after the three sources every field holds the value of the latest
\* source that supplied it (command line over environment over file over
\* default); the command line changes exactly the fields whose flags were
\* changed; when the file or the environment fails, no later source has been
\* applied.
C20_SourceOrder ==
  /\ [](cpc \in {"validate", "ok", "fatal"} =>
          \A f \in CfgFields : cfg[f] = Expected(f))
  /\ [][cpc = "cmdline" =>
          /\ \A f \in CfgFields :
               FlagChanged(flagIn', f) \/ cfg'[f] = cfg[f]
          /\ cfg'.NodeIP = cfg.NodeIP /\ cfg'.DNS = cfg.DNS
          /\ cfg'.ServiceCIDR = cfg.ServiceCIDR]_vars
  /\ []((cpc = "error" /\ cfgErr = "file") =>
          /\ envIn = NoDoc /\ flagIn = NoFlags
          /\ cfg = ApplyDoc(DefaultConfig, fileIn))
  /\ []((cpc = "error" /\ cfgErr = "env") =>
          /\ flagIn = NoFlags
          /\ cfg = ApplyDoc(ApplyDoc(DefaultConfig, fileIn), envIn))

C20_Witness ==
  /\ cpc = "ok"
  /\ fileIn.URL.set /\ envIn.URL.set /\ fileIn.URL.val # envIn.URL.val
  /\ ~flagIn.url.set
  /\ cfg.URL = envIn.URL.val
  /\ flagIn.v.set /\ envIn.LogVLevel.set = FALSE
  /\ cfg.LogVLevel = 2

====
